---- MODULE Spec2Model ----
(***************************************************************************)
(* Bitmap glyph-atlas font of wosly2/tiny-font.                            *)
(*   src/font.go           immediate draw variant (renderString)           *)
(*   src/unnamed/part_000  surface producing variant (RenderString,        *)
(*                         getStringLen)                                   *)
(* A Go string is modelled as the sequence of its code points (valid       *)
(* UTF-8); byte offsets are computed from the UTF-8 length of each code    *)
(* point, because strings.IndexRune and text[i] work on bytes.             *)
(***************************************************************************)
EXTENDS Integers, Sequences, FiniteSets, TLC

\* ------------------------------------------------------------------ bounds
MaxText == 3
MaxCharSet == 3

\* code points used to build character sets and texts
NL == 10
\* '\n', 'A', 'B', U+00C3 (bytes C3 83) and U+00E9 (bytes C3 A9)
CharSetAlphabet == {NL, 65, 66, 195, 233}
TextAlphabet == CharSetAlphabet
\* character sets and texts of the calls of renderString (immediate mode)
DrawnCharSetAlphabet == {65, 66, 233}
DrawnAlphabet == {NL} \cup DrawnCharSetAlphabet
\* texts of the calls of RenderString (surface mode)
SurfaceAlphabet == {NL, 65, 233}
WidthValues == {0, 3}
DrawnWidthValues == {0, 3, 5}
GridWidths == {1, 2}
StartPositions == {<<10, 10>>}

\* ------------------------------------------------------- Go primitives
\* int32(n): two's complement truncation of a Go int (the identity on
\* -2^31 .. 2^31-1, which holds every value the bounded model produces)
ToInt32(n) ==
  IF -2147483647 <= n /\ n <= 2147483647 THEN n
  ELSE ((n + 32768 * 65536) % (65536 * 65536)) - 32768 * 65536

\* utf8.RuneLen for a valid code point
RuneLen(r) == IF r < 128 THEN 1 ELSE IF r < 2048 THEN 2 ELSE IF r < 65536 THEN 3 ELSE 4

\* first byte of the UTF-8 encoding of r: what text[i] reads at a rune start
FirstByte(r) ==
  IF r < 128 THEN r
  ELSE IF r < 2048 THEN 192 + (r \div 64)
  ELSE IF r < 65536 THEN 224 + (r \div 4096)
  ELSE 240 + (r \div 262144)

RECURSIVE ByteLen(_)
\* len(s) of a Go string: its length in bytes
ByteLen(s) == IF s = <<>> THEN 0 ELSE RuneLen(Head(s)) + ByteLen(Tail(s))

\* character position (0-based) of the first occurrence of r in s, or -1
CharIndex(s, r) ==
  IF \E i \in 1..Len(s) : s[i] = r
  THEN (CHOOSE i \in 1..Len(s) : s[i] = r /\ \A j \in 1..(i - 1) : s[j] # r) - 1
  ELSE -1

\* strings.IndexRune: BYTE offset of the first occurrence of r in s, or -1
IndexRune(s, r) ==
  IF CharIndex(s, r) < 0 THEN -1
  ELSE ByteLen(SubSeq(s, 1, CharIndex(s, r)))

\* a Go slice index expression panics outside 0..len-1
InRange(ws, i) == i >= 0 /\ i < Len(ws)

\* ------------------------------------------------------------- type Font
UniqueSeqs(S, n) ==
  UNION { { s \in [1..k -> S] : \A i, j \in 1..k : i # j => s[i] # s[j] } : k \in 0..n }

\* newFont / NewFont set CharSize, LetterPad and NewlinePad of every Font
CellWidth == 5
CellHeight == 11
LetterPad == 1
NewlinePad == 5

Font(g, cs, ws) ==
  [GridWidth |-> g, CharSize |-> <<CellWidth, CellHeight>>, CharSet |-> cs,
   CharWidths |-> ws, NewlinePad |-> NewlinePad, LetterPad |-> LetterPad]

\* fonts with unique characters of A and one width of W per character
FontsOver(A, G, W) ==
  UNION { { Font(g, cs, ws) : g \in G, ws \in [1..Len(cs) -> W] }
          : cs \in UniqueSeqs(A, MaxCharSet) }

\* the grid width only enters the source rectangle: the calls that measure
\* and render run on the two column fonts
Fonts == FontsOver(CharSetAlphabet, {2}, WidthValues)
DrawnFonts == FontsOver(DrawnCharSetAlphabet, {2}, DrawnWidthValues)

\* ------------------------------------- makeDefaultFont / MakeDefaultFont
\* " !\"#$%&'()*+,-./0123456789:;<=>?@A..Z" then "[]\\^_`" "a..z" "{}|~"
DefaultCharSet ==
  [i \in 1..59 |-> 31 + i] \o <<91, 93, 92, 94, 95, 96>>
    \o [i \in 1..26 |-> 96 + i] \o <<123, 125, 124, 126>>

DefaultWidthsHead ==
  <<3, 1, 3, 5, 5, 5, 5, 1, 2, 2, 3, 3, 1, 3, 1, 5>>
    \o <<5, 3, 5, 5, 5, 5, 5, 5, 5, 5>>
    \o <<1, 1, 3, 3, 3, 4, 5>>
    \o <<5, 5, 5, 5, 5, 5, 5, 5, 5, 5, 5, 4, 5, 5, 5, 5, 5, 5, 5, 5, 5, 5, 5, 5, 5, 5>>
    \o <<2, 2, 5, 3, 3, 2>>

DefaultWidthsTail == <<3, 3, 1, 4>>

\* the literal table of src/font.go
DefaultWidthsImmediate ==
  DefaultWidthsHead
    \o <<5, 5, 4, 5, 5, 5, 5, 5, 1, 4, 4, 3, 5, 4, 4, 5, 5, 4, 4, 4, 5, 3, 5, 3, 4, 4>>
    \o DefaultWidthsTail

\* the literal table of src/unnamed/part_000 ('f' is 4 wide there)
DefaultWidthsSurface ==
  DefaultWidthsHead
    \o <<5, 5, 4, 5, 5, 4, 5, 5, 1, 4, 4, 3, 5, 4, 4, 5, 5, 4, 4, 4, 5, 3, 5, 3, 4, 4>>
    \o DefaultWidthsTail

makeDefaultFont == Font(10, DefaultCharSet, DefaultWidthsImmediate)
MakeDefaultFont == Font(10, DefaultCharSet, DefaultWidthsSurface)
DefaultFonts == {makeDefaultFont, MakeDefaultFont}

\* the per-entry comments of the width table name the characters in the
\* order Space ! " ... / 0-9 : ... @ A-Z [ \ ] ^ _ ` a-z { | } ~, that is in
\* code point order 32..126: entry number c - 31 is the one commented "c"
CommentedEntry(c) == c - 31

GlyphChars == TextAlphabet \cup 32..126

Texts == UNION { [1..k -> TextAlphabet] : k \in 0..MaxText }
DrawnTexts == UNION { [1..k -> DrawnAlphabet] : k \in 0..MaxText }
SurfaceTexts == UNION { [1..k -> SurfaceAlphabet] : k \in 0..MaxText }

Rect(x, y, w, h) == [X |-> x, Y |-> y, W |-> w, H |-> h]

\* ------------------------------------------------------- Font.loadGlyph
\* result: panic = index out of range; read = the width table was indexed
loadGlyph_NoNotFoundCheck(f, char) ==
  LET index == IndexRune(f.CharSet, char) IN
  IF ~InRange(f.CharWidths, index)
  THEN [panic |-> TRUE, read |-> TRUE, rect |-> Rect(0, 0, 0, 0)]
  ELSE [panic |-> FALSE, read |-> TRUE,
        rect |-> Rect(ToInt32((index % f.GridWidth) * (f.CharSize[1] + 1)),
                      ToInt32((index \div f.GridWidth) * (f.CharSize[2] + 1)),
                      ToInt32(f.CharWidths[index + 1]),
                      ToInt32(f.CharSize[2]))]

loadGlyph(f, char) ==
  LET index == IndexRune(f.CharSet, char) IN
  IF index < 0
  THEN [panic |-> FALSE, read |-> FALSE, rect |-> Rect(0, 0, 0, 0)]
  ELSE IF ~InRange(f.CharWidths, index)
  THEN [panic |-> TRUE, read |-> TRUE, rect |-> Rect(0, 0, 0, 0)]
  ELSE [panic |-> FALSE, read |-> TRUE,
        rect |-> Rect(ToInt32((index % f.GridWidth) * (f.CharSize[1] + 1)),
                      ToInt32((index \div f.GridWidth) * (f.CharSize[2] + 1)),
                      ToInt32(f.CharWidths[index + 1]),
                      ToInt32(f.CharSize[2]))]

\* ----------------------------------------------------- Font.getStringLen
\* for i := range text visits every rune start; rune(text[i]) is the first
\* byte there; CharWidths[IndexRune(...)] panics when the index is -1 or
\* past the table
RECURSIVE getStringLenFrom(_, _, _)
getStringLenFrom(f, txt, ln) ==
  IF txt = <<>> THEN [panic |-> FALSE, ln |-> ln]
  ELSE LET index == IndexRune(f.CharSet, FirstByte(Head(txt))) IN
       IF ~InRange(f.CharWidths, index) THEN [panic |-> TRUE, ln |-> ln]
       ELSE getStringLenFrom(f, Tail(txt), ln + f.CharWidths[index + 1] + f.LetterPad)

getStringLen(f, txt) == getStringLenFrom(f, txt, 0)

\* ------------------------------------------------------------------ state
\* font     the Font the call is made on
\* char     argument of loadGlyph
\* operands the two strings measured apart and concatenated
\* text     argument of renderString / RenderString
\* start    arguments x, y of renderString
\* pc       position of the call: its entry, its loop, "done" or "panic"
\* pos      1-based position in text of the next character of the loop
\* cursorX, cursorY  the loop's cursor
\* calls    the renderer.Copy / Atlas.Blit calls issued so far
\* ret      the value returned (or, for RenderString, the surface allocated)
VARIABLES font, char, operands, text, start, pc, pos, cursorX, cursorY, calls, ret

vars == <<font, char, operands, text, start, pc, pos, cursorX, cursorY, calls, ret>>

NoRet == [kind |-> "none"]

\* -------------------------------------------------- calls of loadGlyph
InitGlyph ==
  /\ \/ font \in FontsOver(CharSetAlphabet, GridWidths, WidthValues) /\ char \in TextAlphabet
     \/ font \in DefaultFonts /\ char \in GlyphChars
  /\ operands = <<>>
  /\ text = <<>>
  /\ start = <<0, 0>>
  /\ pc = "loadGlyph"
  /\ pos = 1
  /\ cursorX = 0
  /\ cursorY = 0
  /\ calls = <<>>
  /\ ret = NoRet

CallLoadGlyph ==
  /\ pc = "loadGlyph"
  /\ LET g == loadGlyph(font, char) IN
       /\ pc' = IF g.panic THEN "panic" ELSE "done"
       /\ ret' = [kind |-> "rect", read |-> g.read, rect |-> g.rect]
  /\ UNCHANGED <<font, char, operands, text, start, pos, cursorX, cursorY, calls>>

NextGlyph == CallLoadGlyph

SpecGlyph == InitGlyph /\ [][NextGlyph]_vars

Present(f, c) == \E i \in 1..Len(f.CharSet) : f.CharSet[i] = c

\* C1: for every character present in CharSet, loadGlyph returns the
\* rectangle X = (index mod gridWidth) * (cellWidth + 1),
\* Y = (index div gridWidth) * (cellHeight + 1), W = WidthTable[index],
\* H = cellHeight, index being the position of the character in CharSet
\* counted in characters.
C1_GlyphRectByCharacterIndex ==
  (pc \in {"done", "panic"} /\ Present(font, char)) =>
    LET index == CharIndex(font.CharSet, char) IN
      /\ pc = "done"
      /\ ret.rect = Rect((index % font.GridWidth) * (font.CharSize[1] + 1),
                         (index \div font.GridWidth) * (font.CharSize[2] + 1),
                         font.CharWidths[index + 1],
                         font.CharSize[2])

\* C2: for every character absent from CharSet, loadGlyph returns the
\* rectangle (0, 0, 0, 0) and terminates normally, without a panic and
\* without reading the width table.
C2_AbsentGivesZeroRect ==
  (pc \in {"done", "panic"} /\ ~Present(font, char)) =>
    /\ pc = "done"
    /\ ret.rect = Rect(0, 0, 0, 0)
    /\ ~ret.read

C2_Witness ==
  /\ pc = "done"
  /\ ~Present(font, char)
  /\ Len(font.CharSet) = MaxCharSet
  /\ ret.kind = "rect"

\* C7: in the built-in default font the width table has one entry per
\* character of CharSet (95 each) and the entry at a character's index is
\* the width the table's own comment documents for that character.
C7_DefaultTableAligned ==
  (font \in DefaultFonts /\ pc \in {"done", "panic"} /\ Present(font, char)) =>
    /\ Len(font.CharSet) = 95
    /\ Len(font.CharWidths) = 95
    /\ pc = "done"
    /\ ret.rect.W = font.CharWidths[CommentedEntry(char)]

\* ------------------------------------------------ calls of getStringLen
TextsOfLen(k) == [1..k -> TextAlphabet]
SplitLengths == { ab \in (0..MaxText) \X (0..MaxText) : ab[1] + ab[2] < MaxText }
SplitTexts == UNION { TextsOfLen(ab[1]) \X TextsOfLen(ab[2]) : ab \in SplitLengths }

InitLen ==
  /\ font \in Fonts
  /\ char = 0
  /\ operands \in SplitTexts
  /\ text = <<>>
  /\ start = <<0, 0>>
  /\ pc = "getStringLen"
  /\ pos = 1
  /\ cursorX = 0
  /\ cursorY = 0
  /\ calls = <<>>
  /\ ret = NoRet

\* measures s, t and s + t
CallGetStringLen ==
  /\ pc = "getStringLen"
  /\ LET s == getStringLen(font, operands[1])
         t == getStringLen(font, operands[2])
         st == getStringLen(font, operands[1] \o operands[2])
     IN /\ pc' = IF s.panic \/ t.panic \/ st.panic THEN "panic" ELSE "done"
        /\ ret' = [kind |-> "len", s |-> s.ln, t |-> t.ln, st |-> st.ln]
  /\ UNCHANGED <<font, char, operands, text, start, pos, cursorX, cursorY, calls>>

NextLen == CallGetStringLen

SpecLen == InitLen /\ [][NextLen]_vars

NoNewline(txt) == \A i \in 1..Len(txt) : txt[i] # NL

AllPresent(f, txt) == \A i \in 1..Len(txt) : Present(f, txt[i])

RECURSIVE SumAdvance(_, _)
SumAdvance(f, txt) ==
  IF txt = <<>> THEN 0
  ELSE f.CharWidths[CharIndex(f.CharSet, Head(txt)) + 1] + f.LetterPad
       + SumAdvance(f, Tail(txt))

\* C3: for all strings s and t without a newline,
\* getStringLen(s + t) = getStringLen(s) + getStringLen(t), and the measure
\* of a string is the sum over its characters of advance width + LetterPad.
C3_MeasureAdditive ==
  (pc \in {"done", "panic"} /\ NoNewline(operands[1]) /\ NoNewline(operands[2])) =>
    /\ pc = "done"
    /\ ret.st = ret.s + ret.t
    /\ AllPresent(font, operands[1] \o operands[2]) =>
         ret.st = SumAdvance(font, operands[1] \o operands[2])

\* --------------------------------------- Font.renderString (src/font.go)
Call(at, c, src, dst, err) == [at |-> at, char |-> c, src |-> src, dst |-> dst, err |-> err]

InitRender ==
  /\ font \in DrawnFonts
  /\ char = 0
  /\ operands = <<>>
  /\ text \in DrawnTexts
  /\ start \in StartPositions
  /\ pc = "renderString"
  /\ pos = 1
  /\ cursorX = 0
  /\ cursorY = 0
  /\ calls = <<>>
  /\ ret = NoRet

\* cursorX := x; cursorY := y
renderString_Enter ==
  /\ pc = "renderString"
  /\ pc' = "renderString.loop"
  /\ cursorX' = start[1]
  /\ cursorY' = start[2]
  /\ UNCHANGED <<font, char, operands, text, start, pos, calls, ret>>

\* char == '\n': cursorX = x; cursorY += CharSize[1] + NewlinePad; continue
renderString_Newline_NoReset ==
  /\ pc = "renderString.loop"
  /\ pos <= Len(text)
  /\ text[pos] = NL
  /\ cursorY' = cursorY + font.CharSize[2] + font.NewlinePad
  /\ pos' = pos + 1
  /\ UNCHANGED <<font, char, operands, text, start, pc, cursorX, calls, ret>>

renderString_Newline ==
  /\ pc = "renderString.loop"
  /\ pos <= Len(text)
  /\ text[pos] = NL
  /\ cursorX' = start[1]
  /\ cursorY' = cursorY + font.CharSize[2] + font.NewlinePad
  /\ pos' = pos + 1
  /\ UNCHANGED <<font, char, operands, text, start, pc, calls, ret>>

\* loadGlyph indexes CharWidths out of range
renderString_LookupPanic ==
  /\ pc = "renderString.loop"
  /\ pos <= Len(text)
  /\ text[pos] # NL
  /\ loadGlyph(font, text[pos]).panic
  /\ pc' = "panic"
  /\ UNCHANGED <<font, char, operands, text, start, pos, cursorX, cursorY, calls, ret>>

\* srcRect.W == 0 || srcRect.H == 0: continue
renderString_Skip ==
  /\ pc = "renderString.loop"
  /\ pos <= Len(text)
  /\ text[pos] # NL
  /\ LET g == loadGlyph(font, text[pos]) IN
       /\ ~g.panic
       /\ g.rect.W = 0 \/ g.rect.H = 0
  /\ pos' = pos + 1
  /\ UNCHANGED <<font, char, operands, text, start, pc, cursorX, cursorY, calls, ret>>

\* renderer.Copy (it may fail: the error is logged), then the cursor advances
renderString_Copy_StopOnError ==
  /\ pc = "renderString.loop"
  /\ pos <= Len(text)
  /\ text[pos] # NL
  /\ LET g == loadGlyph(font, text[pos]) IN
       /\ ~g.panic
       /\ ~(g.rect.W = 0 \/ g.rect.H = 0)
       /\ \E err \in BOOLEAN :
            /\ calls' = Append(calls, Call(pos, text[pos], g.rect,
                           Rect(ToInt32(cursorX), ToInt32(cursorY), g.rect.W, g.rect.H), err))
            /\ IF err
               THEN pc' = "done" /\ UNCHANGED <<cursorX, pos>>
               ELSE /\ cursorX' = cursorX + font.CharWidths[IndexRune(font.CharSet, text[pos]) + 1]
                                    + font.LetterPad
                    /\ pos' = pos + 1
                    /\ pc' = pc
  /\ UNCHANGED <<font, char, operands, text, start, cursorY, ret>>

renderString_Copy ==
  /\ pc = "renderString.loop"
  /\ pos <= Len(text)
  /\ text[pos] # NL
  /\ LET g == loadGlyph(font, text[pos]) IN
       /\ ~g.panic
       /\ ~(g.rect.W = 0 \/ g.rect.H = 0)
       /\ \E err \in BOOLEAN :
            calls' = Append(calls, Call(pos, text[pos], g.rect,
                       Rect(ToInt32(cursorX), ToInt32(cursorY), g.rect.W, g.rect.H), err))
  /\ cursorX' = cursorX + font.CharWidths[IndexRune(font.CharSet, text[pos]) + 1]
                 + font.LetterPad
  /\ pos' = pos + 1
  /\ UNCHANGED <<font, char, operands, text, start, pc, cursorY, ret>>

\* the range loop is over: the call returns
renderString_Return ==
  /\ pc = "renderString.loop"
  /\ pos > Len(text)
  /\ pc' = "done"
  /\ UNCHANGED <<font, char, operands, text, start, pos, cursorX, cursorY, calls, ret>>

Next ==
  \/ renderString_Enter
  \/ renderString_Newline
  \/ renderString_LookupPanic
  \/ renderString_Skip
  \/ renderString_Copy
  \/ renderString_Return

Spec == InitRender /\ [][Next]_vars

\* number of newlines among the first n characters of txt
NewlinesBefore(txt, n) == Cardinality({ i \in 1..n : i <= Len(txt) /\ txt[i] = NL })

LineHeight(f) == f.CharSize[2] + f.NewlinePad

InLoop == pc = "renderString.loop"

\* C5: in immediate draw mode a newline resets the horizontal cursor to the
\* starting x, adds cellHeight + NewlinePad to the vertical cursor and issues
\* no draw call; a glyph that follows k newlines is drawn at
\* y = startY + k * (cellHeight + NewlinePad) and the first glyph drawn on a
\* line is drawn at x = startX.
C5_NewlineMovesCursor ==
  /\ InLoop =>
       /\ cursorY = start[2] + NewlinesBefore(text, pos - 1) * LineHeight(font)
       /\ (pos > 1 /\ text[pos - 1] = NL) => cursorX = start[1]
  /\ \A k \in 1..Len(calls) :
       /\ text[calls[k].at] # NL
       /\ calls[k].dst.Y = start[2] + NewlinesBefore(text, calls[k].at) * LineHeight(font)
       /\ (\A j \in 1..(k - 1) :
             NewlinesBefore(text, calls[j].at) # NewlinesBefore(text, calls[k].at))
           => calls[k].dst.X = start[1]

\* "A\nB" at (10,10), cellHeight 11, NewlinePad 5: 'A' at (10,10), 'B' at (10,26)
C5_Witness ==
  /\ pc = "done"
  /\ text = <<65, NL, 66>>
  /\ start = <<10, 10>>
  /\ font.CharSize[2] = 11 /\ font.NewlinePad = 5
  /\ Len(calls) = 2
  /\ calls[1].dst.X = 10 /\ calls[1].dst.Y = 10
  /\ calls[2].dst.X = 10 /\ calls[2].dst.Y = 26

\* C8: in immediate draw mode, with non-negative width-table entries, every
\* non-newline character present in CharSet causes exactly one copy call
\* with destination (cursorX, cursorY, WidthTable[index], cellHeight) and
\* then advances cursorX by WidthTable[index] + LetterPad; every character
\* absent from CharSet causes no copy call and leaves the cursor unchanged.
C8_OneCopyPerPresentCharacter ==
  [][(InLoop /\ pos <= Len(text) /\ text[pos] # NL) =>
       IF Present(font, text[pos])
       THEN LET w == font.CharWidths[CharIndex(font.CharSet, text[pos]) + 1] IN
            /\ pc' = pc
            /\ Len(calls') = Len(calls) + 1
            /\ calls'[Len(calls')].dst = Rect(cursorX, cursorY, w, font.CharSize[2])
            /\ cursorX' = cursorX + w + font.LetterPad
            /\ cursorY' = cursorY
       ELSE /\ pc' = pc
            /\ calls' = calls
            /\ cursorX' = cursorX
            /\ cursorY' = cursorY]_vars

\* the loop of renderString when no copy fails: the destinations of the
\* copy calls, the final cursor and how the call ends
RECURSIVE RenderAllSucceed(_, _, _, _, _, _)
RenderAllSucceed(f, txt, i, cx, cy, x0) ==
  IF i > Len(txt) THEN [status |-> "done", dsts |-> <<>>, cx |-> cx, cy |-> cy]
  ELSE IF txt[i] = NL THEN RenderAllSucceed(f, txt, i + 1, x0, cy + LineHeight(f), x0)
  ELSE LET g == loadGlyph(f, txt[i]) IN
       IF g.panic THEN [status |-> "panic", dsts |-> <<>>, cx |-> cx, cy |-> cy]
       ELSE IF g.rect.W = 0 \/ g.rect.H = 0 THEN RenderAllSucceed(f, txt, i + 1, cx, cy, x0)
       ELSE LET rest == RenderAllSucceed(f, txt, i + 1, cx + g.rect.W + f.LetterPad, cy, x0) IN
            [rest EXCEPT !.dsts = <<[at |-> i, dst |-> Rect(cx, cy, g.rect.W, g.rect.H)]>> \o @]

AnyCopyFailed == \E k \in 1..Len(calls) : calls[k].err

InitSurface ==
  /\ font \in Fonts
  /\ char = 0
  /\ operands = <<>>
  /\ text \in SurfaceTexts
  /\ start = <<0, 0>>
  /\ pc = "RenderString"
  /\ pos = 1
  /\ cursorX = 0
  /\ cursorY = 0
  /\ calls = <<>>
  /\ ret = NoRet

\* CreateRGBSurface(0, int32(getStringLen(text)), int32(CharSize[1]), ...)
\* getStringLen panics before any surface exists
RenderString_MeasurePanic ==
  /\ pc = "RenderString"
  /\ getStringLen(font, text).panic
  /\ pc' = "panic"
  /\ UNCHANGED <<font, char, operands, text, start, pos, cursorX, cursorY, calls, ret>>

\* the surface is allocated with the measured width; cursorX, cursorY := 0, 0
\* (SDL is taken to allocate the surface: a failure there is fatal, panic(err);
\* SetColorMod changes the atlas only, which no variable here records)
RenderString_Allocate ==
  /\ pc = "RenderString"
  /\ LET m == getStringLen(font, text) IN
       /\ ~m.panic
       /\ ret' = [kind |-> "surface", W |-> ToInt32(m.ln), H |-> ToInt32(font.CharSize[2])]
  /\ pc' = "RenderString.loop"
  /\ cursorX' = 0
  /\ cursorY' = 0
  /\ UNCHANGED <<font, char, operands, text, start, pos, calls>>

\* char == '\n': cursorX = 0; cursorY += CharSize[1] + NewlinePad; continue
RenderString_Newline ==
  /\ pc = "RenderString.loop"
  /\ pos <= Len(text)
  /\ text[pos] = NL
  /\ cursorX' = 0
  /\ cursorY' = cursorY + font.CharSize[2] + font.NewlinePad
  /\ pos' = pos + 1
  /\ UNCHANGED <<font, char, operands, text, start, pc, calls, ret>>

\* loadGlyph indexes CharWidths out of range
RenderString_LookupPanic ==
  /\ pc = "RenderString.loop"
  /\ pos <= Len(text)
  /\ text[pos] # NL
  /\ loadGlyph(font, text[pos]).panic
  /\ pc' = "panic"
  /\ UNCHANGED <<font, char, operands, text, start, pos, cursorX, cursorY, calls, ret>>

\* srcRect.W == 0 || srcRect.H == 0: continue
RenderString_Skip ==
  /\ pc = "RenderString.loop"
  /\ pos <= Len(text)
  /\ text[pos] # NL
  /\ LET g == loadGlyph(font, text[pos]) IN
       /\ ~g.panic
       /\ g.rect.W = 0 \/ g.rect.H = 0
  /\ pos' = pos + 1
  /\ UNCHANGED <<font, char, operands, text, start, pc, cursorX, cursorY, calls, ret>>

\* Atlas.Blit (its error is dropped), then the cursor advances
RenderString_Blit ==
  /\ pc = "RenderString.loop"
  /\ pos <= Len(text)
  /\ text[pos] # NL
  /\ LET g == loadGlyph(font, text[pos]) IN
       /\ ~g.panic
       /\ ~(g.rect.W = 0 \/ g.rect.H = 0)
       /\ \E err \in BOOLEAN :
            calls' = Append(calls, Call(pos, text[pos], g.rect,
                       Rect(ToInt32(cursorX), ToInt32(cursorY), g.rect.W, g.rect.H), err))
  /\ cursorX' = cursorX + font.CharWidths[IndexRune(font.CharSet, text[pos]) + 1]
                 + font.LetterPad
  /\ pos' = pos + 1
  /\ UNCHANGED <<font, char, operands, text, start, pc, cursorY, ret>>

\* return surface
RenderString_Return ==
  /\ pc = "RenderString.loop"
  /\ pos > Len(text)
  /\ pc' = "done"
  /\ UNCHANGED <<font, char, operands, text, start, pos, cursorX, cursorY, calls, ret>>

NextSurface ==
  \/ RenderString_MeasurePanic
  \/ RenderString_Allocate
  \/ RenderString_Newline
  \/ RenderString_LookupPanic
  \/ RenderString_Skip
  \/ RenderString_Blit
  \/ RenderString_Return

SpecSurface == InitSurface /\ [][NextSurface]_vars

Ended == pc \in {"done", "panic"}

\* C4: in both rendering modes, rendering a non-empty string made only of
\* characters absent from CharSet issues no copy or blit call and the call
\* completes normally (in surface mode it returns a surface).
C4_UnknownOnlyTextSucceeds ==
  (Ended /\ text # <<>> /\ \A i \in 1..Len(text) : ~Present(font, text[i])) =>
    /\ pc = "done"
    /\ calls = <<>>
    /\ ret.kind \in {"none", "surface"}

\* C6: in surface-producing mode, for any text made of CharSet characters
\* and newlines, RenderString completes and returns a surface of size
\* (measured width, cellHeight); a newline resets the cursor x to 0 and adds
\* cellHeight + NewlinePad to the cursor y, so glyphs after a newline are
\* blitted below the surface's bottom edge.
C6_MultiLineSurfaceCompletes ==
  (Ended /\ \A i \in 1..Len(text) : text[i] = NL \/ Present(font, text[i])) =>
    /\ pc = "done"
    /\ ret.kind = "surface"
    /\ ret.H = font.CharSize[2]
    /\ \A k \in 1..Len(calls) :
         calls[k].dst.Y = NewlinesBefore(text, calls[k].at) * LineHeight(font)

\* C10: in surface-producing mode, for a newline-free text of CharSet
\* characters (width entries and LetterPad non-negative), every blit's
\* destination lies inside the allocated surface: 0 <= X,
\* X + W <= getStringLen(text), Y = 0 and H = cellHeight.
C10_BlitsInsideSurface ==
  (NoNewline(text) /\ AllPresent(font, text)) =>
    \A k \in 1..Len(calls) :
      /\ ret.kind = "surface"
      /\ 0 <= calls[k].dst.X
      /\ calls[k].dst.X + calls[k].dst.W <= ret.W
      /\ calls[k].dst.Y = 0
      /\ calls[k].dst.H = font.CharSize[2]

====
